---- MODULE Spec2Model ----
(***************************************************************************)
(* Hypernode node client: the worker process of src/src/main.py with its   *)
(* configuration (src/src/config.py), heartbeat manager                    *)
(* (src/src/heartbeat.py), telemetry reporter (src/src/telemetry.py) and   *)
(* job executor (src/src/job_executor.py), the job handlers' input         *)
(* validation and the LLM inference handler (src/jobs/base.py,             *)
(* src/jobs/llm_inference.py), and the GPU detector                        *)
(* (src/src/gpu_detector.py).                                              *)
(*                                                                         *)
(* Python strings whose content the code inspects (token, wallet, URL) are *)
(* sequences of one-character strings.  The backend, the operating system  *)
(* (signals) and the hardware are the environment: each request's outcome  *)
(* is drawn from the outcomes the transport can produce.                   *)
(***************************************************************************)
EXTENDS Integers, Sequences, FiniteSets, TLC

VARIABLES
    env,          \* the process environment read by Config()
    config,       \* HypernodeWorker.config
    vres,         \* the value returned by the last Config.validate() call
    main,         \* position of the main thread inside main()/start()
    exitStatus,   \* process exit status, NoExit while the process lives
    regLog,       \* what each register_node() call returned, in call order
    backoffSlept, \* seconds slept by start() between the two register calls
    assignedId,   \* nodeId of the backend's last successful register response
    hbNodeId,     \* HeartbeatManager.node_id
    components,   \* heartbeat_manager/job_executor/telemetry_reporter built
    running,      \* HypernodeWorker.running
    loop,         \* position of each background thread
    last,         \* how the body's call ended in the thread's last iteration
    slept,        \* seconds of each thread's last time.sleep()
    hbFails,      \* consecutive heartbeat calls that did not return True
    job,          \* the job the job thread holds (local `job`)
    disp,         \* frame of the running execute_job() call
    timeouts,     \* the timeout arguments, in seconds, of the requests made so far
    probe,        \* what the NVML driver answers to GPUDetector.detect()
    vram_gb,      \* argument of a _determine_capabilities() call
    sensors,      \* what the NVML driver answers to GPUDetector.get_gpu_stats()
    gpu,          \* what the calls of GPUDetector's methods returned
    handler       \* an LLMInferenceJob object of src/jobs/llm_inference.py

\* The units exercised on their own: the worker's steps leave them alone.
units == <<probe, vram_gb, sensors, gpu, handler>>

\* The worker process of main.py.
worker == <<env, config, vres, main, exitStatus, regLog, backoffSlept, assignedId,
            hbNodeId, components, running, loop, last, slept, hbFails, job, disp,
            timeouts>>

vars == <<env, config, vres, main, exitStatus, regLog, backoffSlept, assignedId,
          hbNodeId, components, running, loop, last, slept, hbFails, job, disp,
          timeouts, probe, vram_gb, sensors, gpu, handler>>

(***************************************************************************)
(* Bounds of the model.                                                    *)
(***************************************************************************)
MaxFails == 3   \* the consecutive-failure count saturates here
MaxVramGB == 25 \* the largest VRAM size, in GB, a GPU reports
MaxCalls == 2   \* load_model() and generate() calls counted on one handler

(***************************************************************************)
(* Python values.                                                          *)
(***************************************************************************)
None == "None"
\* exitStatus while the process lives; <<n>> once it has exited with status n.
NoExit == <<>>
\* `not x` for a str held as a sequence of characters, and for an optional
\* str held as a TLA+ string.
Empty(s) == s = <<>>
Falsy(x) == x = None \/ x = ""

Str(c, n) == [i \in 1..n |-> c]
StartsWith(s, p) == Len(s) >= Len(p) /\ SubSeq(s, 1, Len(p)) = p
Max2(a, b) == IF a >= b THEN a ELSE b
Min2(a, b) == IF a <= b THEN a ELSE b

HttpScheme == <<"h", "t", "t", "p", ":", "/", "/">>
HttpsScheme == <<"h", "t", "t", "p", "s", ":", "/", "/">>

(***************************************************************************)
(* config.py: Config                                                       *)
(***************************************************************************)
NoResult == <<>>

\* Python's int() on the text of an environment variable that holds an
\* integer: an optional sign, then decimal digits, most significant first.
Digits == <<"0", "1", "2", "3", "4", "5", "6", "7", "8", "9">>
DigitValue(ch) == (CHOOSE i \in 1..Len(Digits) : Digits[i] = ch) - 1

RECURSIVE DigitsValue(_)
DigitsValue(s) ==
    IF s = <<>> THEN 0
    ELSE 10 * DigitsValue(SubSeq(s, 1, Len(s) - 1)) + DigitValue(s[Len(s)])

int(s) ==
    IF s[1] = "-" THEN 0 - DigitsValue(Tail(s))
    ELSE IF s[1] = "+" THEN DigitsValue(Tail(s))
    ELSE DigitsValue(s)

\* Mutant of LoadConfig: the upper clamps are missing.
LoadConfigNoUpperClamp(e) ==
    [node_token |-> e.HN_NODE_TOKEN,
     wallet_pubkey |-> e.WALLET_PUBKEY,
     backend_url |-> e.BACKEND_URL,
     heartbeat_interval |-> Max2(10, int(e.HEARTBEAT_INTERVAL)),
     request_timeout |-> Max2(5, int(e.REQUEST_TIMEOUT)),
     job_poll_interval |-> Max2(5, int(e.JOB_POLL_INTERVAL))]

\* Config.__init__ (dataclass default factories): numeric settings clamped.
LoadConfig(e) ==
    [node_token |-> e.HN_NODE_TOKEN,
     wallet_pubkey |-> e.WALLET_PUBKEY,
     backend_url |-> e.BACKEND_URL,
     heartbeat_interval |-> Max2(10, Min2(int(e.HEARTBEAT_INTERVAL), 600)),
     request_timeout |-> Max2(5, Min2(int(e.REQUEST_TIMEOUT), 300)),
     job_poll_interval |-> Max2(5, Min2(int(e.JOB_POLL_INTERVAL), 60))]

\* The Config object before its fields are computed.
NoConfig ==
    [node_token |-> <<>>, wallet_pubkey |-> <<>>, backend_url |-> <<>>,
     heartbeat_interval |-> 0, request_timeout |-> 0, job_poll_interval |-> 0]

\* Mutant of ConfigValidate: the wallet length test is off by one.
ConfigValidateWalletOffByOne(c) ==
    IF Empty(c.node_token) THEN <<FALSE, "HN_NODE_TOKEN is required">>
    ELSE IF Empty(c.wallet_pubkey) \/ Len(c.wallet_pubkey) < 31
    THEN <<FALSE, "WALLET_PUBKEY is required and must be valid Solana address">>
    ELSE IF ~(StartsWith(c.backend_url, HttpScheme) \/ StartsWith(c.backend_url, HttpsScheme))
    THEN <<FALSE, "BACKEND_URL must start with http:// or https://">>
    ELSE IF c.heartbeat_interval < 10
    THEN <<FALSE, "HEARTBEAT_INTERVAL must be at least 10 seconds">>
    ELSE <<TRUE, None>>

\* Config.validate
ConfigValidate(c) ==
    IF Empty(c.node_token) THEN <<FALSE, "HN_NODE_TOKEN is required">>
    ELSE IF Empty(c.wallet_pubkey) \/ Len(c.wallet_pubkey) < 32
    THEN <<FALSE, "WALLET_PUBKEY is required and must be valid Solana address">>
    ELSE IF ~(StartsWith(c.backend_url, HttpScheme) \/ StartsWith(c.backend_url, HttpsScheme))
    THEN <<FALSE, "BACKEND_URL must start with http:// or https://">>
    ELSE IF c.heartbeat_interval < 10
    THEN <<FALSE, "HEARTBEAT_INTERVAL must be at least 10 seconds">>
    ELSE <<TRUE, None>>

\* HypernodeWorker.validate_config
validate_config(c) ==
    IF Empty(c.node_token) THEN FALSE
    ELSE IF Empty(c.wallet_pubkey) THEN FALSE
    ELSE TRUE

(***************************************************************************)
(* Inputs.                                                                 *)
(***************************************************************************)
DefaultUrl == HttpsScheme \o <<"a">>
FtpUrl == <<"f", "t", "p", ":", "/", "/", "a">>

\* Environments the worker process is started in; the numeric variables are
\* text, REQUEST_TIMEOUT and JOB_POLL_INTERVAL at their defaults "30" and "10".
Env(t, w, u, hb) ==
    [HN_NODE_TOKEN |-> t, WALLET_PUBKEY |-> w, BACKEND_URL |-> u,
     HEARTBEAT_INTERVAL |-> hb, REQUEST_TIMEOUT |-> <<"3", "0">>,
     JOB_POLL_INTERVAL |-> <<"1", "0">>]
GoodEnv == Env(<<"t", "k">>, Str("W", 32), DefaultUrl, <<"6", "0">>)
Envs ==
    {GoodEnv,
     Env(<<"t", "k">>, Str("W", 31), DefaultUrl, <<"6", "0">>),
     Env(<<"t", "k">>, Str("W", 32), FtpUrl, <<"5">>),
     Env(<<>>, Str("W", 32), DefaultUrl, <<"6", "0">>),
     Env(<<"t", "k">>, <<>>, DefaultUrl, <<"6", "0">>),
     Env(<<>>, <<>>, FtpUrl, <<"5">>),
     [GoodEnv EXCEPT !.REQUEST_TIMEOUT = <<"5">>, !.JOB_POLL_INTERVAL = <<"6", "0">>]}

\* The response of one HTTP request: a status code and a body that is JSON
\* of the expected shape or is not, or a transport failure (requests raises:
\* connection refused, timeout, ...).
Transport == [kind |-> "transport", status |-> 0, nodeId |-> None, json |-> FALSE]
Response(s, n) == [kind |-> "response", status |-> s, nodeId |-> n, json |-> TRUE]
Malformed(s) == [kind |-> "response", status |-> s, nodeId |-> None, json |-> FALSE]
NodeIds == {"node-7"}
\* 200/201 with a node id, 200 with a JSON body that names no node, 200 with
\* a body that is not JSON, a rejection, a transport failure.
RegisterOutcomes ==
    {Response(s, n) : s \in {200, 201}, n \in NodeIds}
        \cup {Response(200, None), Malformed(200), Response(500, None), Transport}
HeartbeatOutcomes == {Response(200, None), Response(201, None), Response(500, None), Transport}
ReportOutcomes == {Response(200, None), Response(500, None), Transport}
\* What became of a request: answered 2xx, rejected, or not answered.
OutcomeClass(o) ==
    IF o.kind # "response" THEN "transport"
    ELSE IF o.status >= 200 /\ o.status <= 299 THEN "ok" ELSE "rejected"

Loops == {"heartbeat", "telemetry", "job"}

\* An exception that leaves the callee although the callee wraps its work in
\* `except Exception` (raised by the handler's own logging call, say): the
\* only way the loops' own `except Exception` is entered.
Escaped == [kind |-> "escaped", status |-> 0, nodeId |-> None, json |-> FALSE]

JobIds == {"j1", None}
JobTypes == {"llm_inference", "llm_fine_tuning", "rag_indexing", "vision_pipeline",
             "render", "mystery", None}
Prompts == {"hi", ""}
\* The prompt is read by the llm_inference handler only.
Jobs ==
    {j \in [jobId : JobIds, jobType : JobTypes, prompt : Prompts] :
        j.prompt # "" => j.jobType = "llm_inference"}
NoJob == [jobId |-> None, jobType |-> None, prompt |-> None]
\* 200 with a job body, 200 without one, 200 with a body that is not JSON, a
\* rejection, a transport failure, and an exception that leaves poll_job.
PollOutcomes ==
    {[kind |-> "response", status |-> 200, job |-> j, json |-> TRUE] : j \in Jobs \cup {NoJob}}
        \cup {[kind |-> "response", status |-> 200, job |-> NoJob, json |-> FALSE],
              [kind |-> "response", status |-> 500, job |-> NoJob, json |-> TRUE],
              [kind |-> "transport", status |-> 0, job |-> NoJob, json |-> FALSE],
              [kind |-> "escaped", status |-> 0, job |-> NoJob, json |-> FALSE]}

\* The frame of one execute_job() call: the handler's result or the error
\* caught, the report requests made, whether and how often a routed handler
\* ran, how often
\* a jobs/ handler's validate() and cleanup() were called (execute_job calls
\* neither), whether an exception left execute_job, and the value returned.
NoFrame ==
    [result |-> [key |-> None, value |-> None, exit_code |-> None],
     error |-> None, reports |-> <<>>, executed |-> FALSE, runs |-> 0,
     validated |-> 0, cleaned |-> 0, escaped |-> FALSE, returned |-> None]

(***************************************************************************)
(* main.py: HypernodeWorker.start, register_node                           *)
(***************************************************************************)
\* The timeout argument of every requests.post / requests.get call (main.py
\* line 84, heartbeat.py line 29, job_executor.py lines 26, 132 and 144) for
\* the Config c.
RequestTimeout(c) == 10

RegisterBackoff == 30

Alive == exitStatus = NoExit

\* register_node's return value (lines 62-98): response.json() raising, like
\* requests.post raising, is caught at line 96.
register_node(o) ==
    IF o.kind # "response" THEN FALSE
    ELSE IF o.status \in {200, 201} THEN o.json
    ELSE FALSE

\* Mutant of AfterRegister: the retry is repeated while registration fails.
AfterRegisterRetryForever(attempt, ok) ==
    IF ok THEN "components" ELSE "backoff"

\* Mutant of AfterRegister: a failed retry is not fatal.
AfterRegisterIgnoreFailure(attempt, ok) ==
    IF ok THEN "components" ELSE IF attempt = 1 THEN "backoff" ELSE "components"

\* Mutant of AfterRegister: after a successful registration start() starts
\* the threads at once, before the components are built and the run flag set.
AfterRegisterSpawnFirst(attempt, ok) ==
    IF ok THEN "spawn_heartbeat" ELSE IF attempt = 1 THEN "backoff" ELSE "exit1"

\* start(), lines 115-120: where start() goes after the attempt-th register call.
AfterRegister(attempt, ok) ==
    IF ok THEN "components" ELSE IF attempt = 1 THEN "backoff" ELSE "exit1"

\* What dies with the process: the threads and their frames.
threads == <<exitStatus, loop, last, slept, hbFails, job, disp>>

\* sys.exit(status) reaching the top of the main thread: the process ends and
\* its daemon threads end with it.
Exit(status) ==
    /\ exitStatus' = <<status>>
    /\ main' = "exited"
    /\ loop' = [l \in Loops |-> IF loop[l] = "idle" THEN "idle" ELSE "killed"]
    /\ last' = [l \in Loops |-> "never"]
    /\ slept' = [l \in Loops |-> 0]
    /\ hbFails' = 0
    /\ job' = NoJob
    /\ disp' = NoFrame

\* start(), lines 102-112.
Start ==
    /\ main = "start"
    /\ IF validate_config(config)
       THEN main' = "register" /\ UNCHANGED threads
       ELSE Exit(1)
    /\ UNCHANGED <<units, timeouts, env, config, vres, regLog, backoffSlept,
                   assignedId, hbNodeId, components, running>>

\* start(), lines 115 and 118, with register_node (lines 48-98).
RegisterNode ==
    /\ main = "register"
    /\ \E o \in RegisterOutcomes :
         LET ok == register_node(o)
             next == AfterRegister(Len(regLog) + 1, ok)
         IN /\ regLog' = Append(regLog, ok)
            /\ assignedId' = IF ok THEN o.nodeId ELSE assignedId
            /\ IF next = "exit1"
               THEN Exit(1)
               ELSE main' = next /\ UNCHANGED threads
    /\ timeouts' = timeouts \cup {RequestTimeout(config)}
    /\ UNCHANGED <<units, env, config, vres, backoffSlept, hbNodeId,
                   components, running>>

\* start(), lines 116-117.
Backoff ==
    /\ main = "backoff"
    /\ backoffSlept' = RegisterBackoff
    /\ main' = "register"
    /\ UNCHANGED <<units, timeouts, env, config, vres, exitStatus, regLog,
                   assignedId, hbNodeId, components, running, loop, last,
                   slept, hbFails, job, disp>>

\* start(), lines 123-125.
InitComponents ==
    /\ main = "components"
    /\ components' = TRUE
    /\ hbNodeId' = None
    /\ main' = "set_running"
    /\ UNCHANGED <<units, timeouts, env, config, vres, exitStatus, regLog,
                   backoffSlept, assignedId, running, loop, last, slept,
                   hbFails, job, disp>>

\* start(), line 128.
SetRunning ==
    /\ main = "set_running"
    /\ running' = TRUE
    /\ main' = "spawn_heartbeat"
    /\ UNCHANGED <<units, timeouts, env, config, vres, exitStatus, regLog,
                   backoffSlept, assignedId, hbNodeId, components, loop, last,
                   slept, hbFails, job, disp>>

\* start(), lines 134-136: the three Thread.start() calls, in order.
SpawnNext(at) ==
    CASE at = "spawn_heartbeat" -> "spawn_telemetry"
      [] at = "spawn_telemetry" -> "spawn_job"
      [] at = "spawn_job" -> "main_loop"

SpawnOf(at) ==
    CASE at = "spawn_heartbeat" -> "heartbeat"
      [] at = "spawn_telemetry" -> "telemetry"
      [] at = "spawn_job" -> "job"

StartThread ==
    /\ main \in {"spawn_heartbeat", "spawn_telemetry", "spawn_job"}
    /\ loop' = [loop EXCEPT ![SpawnOf(main)] = "check"]
    /\ main' = SpawnNext(main)
    /\ UNCHANGED <<units, timeouts, env, config, vres, exitStatus, regLog,
                   backoffSlept, assignedId, hbNodeId, components, running,
                   last, slept, hbFails, job, disp>>

\* main(), lines 195-200: SIGINT/SIGTERM run signal_handler, which raises
\* SystemExit(0) in the main thread; nothing in start() catches it, and the
\* daemon threads die with the process.
Signal ==
    /\ Alive
    /\ Exit(0)
    /\ UNCHANGED <<units, timeouts, env, config, vres, regLog, backoffSlept,
                   assignedId, hbNodeId, components, running>>

\* Mutant of Runnable: the three loops take turns in one thread of control,
\* so a loop waits while another is inside a handler run.
RunnableInTurn(l) == \A k \in Loops \ {l} : loop[k] # "execute"

\* start(), lines 130-136: each loop is the target of a thread of its own,
\* and no loop takes a lock or joins another: a step of one thread never
\* waits for what another thread is doing.
Runnable(l) == TRUE

(***************************************************************************)
(* main.py: the three background loops                                     *)
(***************************************************************************)
\* `while self.running:` of each loop (lines 150, 160, 170).  `last` and
\* `slept` describe one iteration and are cleared when the next one begins.
LoopCheck(l) ==
    /\ Alive
    /\ loop[l] = "check"
    /\ Runnable(l)
    /\ loop' = [loop EXCEPT ![l] = IF running THEN "call" ELSE "exited"]
    /\ last' = [last EXCEPT ![l] = "never"]
    /\ slept' = [slept EXCEPT ![l] = 0]
    /\ UNCHANGED <<units, timeouts, env, config, vres, main, exitStatus,
                   regLog, backoffSlept, assignedId, hbNodeId, components,
                   running, hbFails, job, disp>>

\* Mutant of LoopBoundary: a loop gives up after a failed call.
LoopBoundaryStopOnFailure(ret) ==
    IF ret = "raise" THEN "recover" ELSE IF ret = "false" THEN "exited" ELSE "sleep"

\* Mutant of LoopBoundary: the loops have no `except Exception`.
LoopBoundaryNoCatch(ret) ==
    IF ret = "raise" THEN "crashed" ELSE "sleep"

\* The try/except of a loop iteration (lines 151-156, 161-166, 171-181): where
\* the thread goes when the body's call returned `ret` or raised.
LoopBoundary(ret) ==
    IF ret = "raise" THEN "recover" ELSE "sleep"

\* The time.sleep() argument of each loop (lines 153/156, 163/166, 178/181).
SleepSeconds(l, at, c) ==
    CASE l = "heartbeat" -> IF at = "recover" THEN 5 ELSE c.heartbeat_interval
      [] l = "telemetry" -> IF at = "recover" THEN 10 ELSE 60
      [] l = "job" -> IF at = "recover" THEN 5 ELSE 10

\* heartbeat.py: HeartbeatManager.send_heartbeat, lines 19-41.
send_heartbeat(o) ==
    CASE o.kind = "escaped" -> "raise"
      [] o.kind = "transport" -> "false"
      [] o.kind = "response" -> IF o.status = 200 THEN "true" ELSE "false"

\* _run_heartbeat_loop, line 152.
HeartbeatCall ==
    /\ Alive
    /\ loop["heartbeat"] = "call"
    /\ Runnable("heartbeat")
    /\ \E o \in HeartbeatOutcomes \cup {Escaped} :
         LET ret == send_heartbeat(o)
         IN /\ last' = [last EXCEPT !["heartbeat"] = ret]
            /\ hbFails' = IF ret = "true" THEN 0 ELSE Min2(hbFails + 1, MaxFails)
            /\ loop' = [loop EXCEPT !["heartbeat"] = LoopBoundary(ret)]
    /\ timeouts' = timeouts \cup {RequestTimeout(config)}
    /\ UNCHANGED <<units, env, config, vres, main, exitStatus, regLog,
                   backoffSlept, assignedId, hbNodeId, components, running,
                   slept, job, disp>>

\* telemetry.py: TelemetryReporter.report, lines 18-28: a collection error is
\* logged inside report(), which then returns None.
report(o) ==
    CASE o = "escaped" -> "raise"
      [] o = "collect_error" -> "none"
      [] o = "collected" -> "none"

\* _run_telemetry_loop, line 162.
TelemetryCall ==
    /\ Alive
    /\ loop["telemetry"] = "call"
    /\ Runnable("telemetry")
    /\ \E o \in {"collected", "collect_error", "escaped"} :
         LET ret == report(o)
         IN /\ last' = [last EXCEPT !["telemetry"] = IF ret = "raise" THEN "raise" ELSE o]
            /\ loop' = [loop EXCEPT !["telemetry"] = LoopBoundary(ret)]
    /\ UNCHANGED <<units, timeouts, env, config, vres, main, exitStatus,
                   regLog, backoffSlept, assignedId, hbNodeId, components,
                   running, slept, hbFails, job, disp>>

\* The time.sleep() that ends an iteration, and the jump back to `while`.
LoopSleep(l) ==
    /\ Alive
    /\ loop[l] \in {"sleep", "recover"}
    /\ Runnable(l)
    /\ slept' = [slept EXCEPT ![l] = SleepSeconds(l, loop[l], config)]
    /\ loop' = [loop EXCEPT ![l] = "check"]
    /\ UNCHANGED <<units, timeouts, env, config, vres, main, exitStatus,
                   regLog, backoffSlept, assignedId, hbNodeId, components,
                   running, last, hbFails, job, disp>>

(***************************************************************************)
(* job_executor.py: JobExecutor                                            *)
(***************************************************************************)
\* poll_job, lines 19-40: the job returned, NoJob for None.
poll_job(o) ==
    IF o.kind # "response" THEN NoJob
    ELSE IF o.status = 200 /\ o.json THEN o.job
    ELSE NoJob

\* poll_job, lines 35-40: the request was rejected, its body was not JSON,
\* or it raised; poll_job logs that and returns None.
PollFailed(o) == o.kind # "response" \/ o.status # 200 \/ ~o.json

\* _run_job_loop, lines 173-178.
JobPoll ==
    /\ Alive
    /\ loop["job"] = "call"
    /\ Runnable("job")
    /\ \E o \in PollOutcomes :
         IF o.kind = "escaped"
         THEN /\ last' = [last EXCEPT !["job"] = "raise"]
              /\ loop' = [loop EXCEPT !["job"] = LoopBoundary("raise")]
              /\ UNCHANGED <<job, disp>>
         ELSE IF poll_job(o) # NoJob
         THEN /\ job' = poll_job(o)
              /\ last' = [last EXCEPT !["job"] = "job"]
              /\ disp' = NoFrame
              /\ loop' = [loop EXCEPT !["job"] = "execute"]
         ELSE /\ last' = [last EXCEPT !["job"] = IF PollFailed(o) THEN "error" ELSE "none"]
              /\ loop' = [loop EXCEPT !["job"] = LoopBoundary("none")]
              /\ UNCHANGED <<job, disp>>
    /\ timeouts' = timeouts \cup {RequestTimeout(config)}
    /\ UNCHANGED <<units, env, config, vres, main, exitStatus, regLog,
                   backoffSlept, assignedId, hbNodeId, components, running,
                   slept, hbFails>>

\* Mutant of Route: a job type that is not recognised is treated as a render
\* job.
RouteDefaultRender(jobType) ==
    CASE jobType = "llm_inference" -> "_execute_llm_inference"
      [] jobType = "llm_fine_tuning" -> "_execute_fine_tuning"
      [] jobType = "rag_indexing" -> "_execute_rag_indexing"
      [] jobType = "vision_pipeline" -> "_execute_vision"
      [] OTHER -> "_execute_render"

\* execute_job, lines 51-62: the handler the job type routes to.
Route(jobType) ==
    CASE jobType = "llm_inference" -> "_execute_llm_inference"
      [] jobType = "llm_fine_tuning" -> "_execute_fine_tuning"
      [] jobType = "rag_indexing" -> "_execute_rag_indexing"
      [] jobType = "vision_pipeline" -> "_execute_vision"
      [] jobType = "render" -> "_execute_render"
      [] OTHER -> "_execute_generic"

\* The handlers' results, lines 75-118 (the first key of each dict, and the
\* generic handler's exit code).
HandlerResult(h) ==
    CASE h = "_execute_llm_inference" ->
           [key |-> "output", value |-> "This is a placeholder result for LLM inference", exit_code |-> None]
      [] h = "_execute_fine_tuning" ->
           [key |-> "checkpoint_url", value |-> "https://example.com/checkpoint.pth", exit_code |-> None]
      [] h = "_execute_rag_indexing" ->
           [key |-> "index_url", value |-> "https://example.com/index.faiss", exit_code |-> None]
      [] h = "_execute_vision" ->
           [key |-> "detections", value |-> "[]", exit_code |-> None]
      [] h = "_execute_render" ->
           [key |-> "render_url", value |-> "https://example.com/render.png", exit_code |-> None]
      [] h = "_execute_generic" ->
           [key |-> "result", value |-> "Generic job completed", exit_code |-> "0"]

\* Mutant of report_call: the report functions have no try/except.
report_callNoCatch(o) ==
    IF o.kind = "transport" THEN "raise" ELSE "returned"

\* _report_result / _report_failure, lines 122-135 and 139-147: the status of
\* the response is not looked at, a transport failure is logged.
report_call(o) ==
    IF o.kind = "transport" THEN "returned" ELSE "returned"

\* The request _report_result makes, lines 123-133, and how it ended.
ResultReport(job_id, o) ==
    [kind |-> "result", jobId |-> job_id, nodeId |-> "current_node_id", error |-> None,
     outcome |-> OutcomeClass(o)]

\* The request _report_failure makes, lines 140-145, and how it ended.
FailureReport(job_id, error, o) ==
    [kind |-> "failure", jobId |-> job_id, nodeId |-> None, error |-> error,
     outcome |-> OutcomeClass(o)]

\* What a handler call can do.  The five typed handlers are placeholders
\* for the job bodies ("would load model and run inference", line 77): they
\* return their constant, or the job body raises inside the try block, the
\* case the `except Exception` of line 70 is written for.  The generic
\* handler (lines 113-118) is complete as written and returns its constant.
HandlerOutcomes(h) ==
    IF h = "_execute_generic" THEN {"return"} ELSE {"return", "raise"}

\* Mutant of AfterHandler: a job whose handler raised is run once more.
AfterHandlerRetry(h, runs) ==
    IF h = "return" THEN "report_result"
    ELSE IF runs < 2 THEN "execute" ELSE "report_failure"

\* execute_job, lines 65 and 70-72: where execute_job goes when the handler,
\* in its runs-th run for this job, returned or raised.
AfterHandler(h, runs) ==
    IF h = "return" THEN "report_result" ELSE "report_failure"

\* execute_job, lines 44-62: the routed handler runs.
JobExecute ==
    /\ Alive
    /\ loop["job"] = "execute"
    /\ Runnable("job")
    /\ \E h \in HandlerOutcomes(Route(job.jobType)) :
         /\ disp' = [disp EXCEPT
                        !.executed = TRUE,
                        !.runs = @ + 1,
                        !.result = IF h = "return"
                                   THEN HandlerResult(Route(job.jobType)) ELSE @,
                        !.error = IF h = "return" THEN @ ELSE "handler raised"]
         /\ loop' = [loop EXCEPT !["job"] = AfterHandler(h, disp.runs + 1)]
    /\ UNCHANGED <<units, timeouts, env, config, vres, main, exitStatus,
                   regLog, backoffSlept, assignedId, hbNodeId, components,
                   running, last, slept, hbFails, job>>

\* execute_job, lines 65-68, with _report_result.
JobReportResult ==
    /\ Alive
    /\ loop["job"] = "report_result"
    /\ Runnable("job")
    /\ \E o \in ReportOutcomes :
         LET sent == Append(disp.reports, ResultReport(job.jobId, o))
         IN IF report_call(o) = "raise"
            THEN /\ disp' = [disp EXCEPT !.reports = sent, !.error = "transport error"]
                 /\ loop' = [loop EXCEPT !["job"] = "report_failure"]
            ELSE /\ disp' = [disp EXCEPT !.reports = sent, !.returned = "True"]
                 /\ loop' = [loop EXCEPT !["job"] = "returned"]
    /\ timeouts' = timeouts \cup {RequestTimeout(config)}
    /\ UNCHANGED <<units, env, config, vres, main, exitStatus, regLog,
                   backoffSlept, assignedId, hbNodeId, components, running,
                   last, slept, hbFails, job>>

\* execute_job, lines 70-73, with _report_failure.
JobReportFailure ==
    /\ Alive
    /\ loop["job"] = "report_failure"
    /\ Runnable("job")
    /\ \E o \in ReportOutcomes :
         LET sent == Append(disp.reports, FailureReport(job.jobId, disp.error, o))
         IN IF report_call(o) = "raise"
            THEN /\ disp' = [disp EXCEPT !.reports = sent, !.escaped = TRUE]
                 /\ last' = [last EXCEPT !["job"] = "raise"]
                 /\ loop' = [loop EXCEPT !["job"] = LoopBoundary("raise")]
            ELSE /\ disp' = [disp EXCEPT !.reports = sent, !.returned = "False"]
                 /\ last' = last
                 /\ loop' = [loop EXCEPT !["job"] = "returned"]
    /\ timeouts' = timeouts \cup {RequestTimeout(config)}
    /\ UNCHANGED <<units, env, config, vres, main, exitStatus, regLog,
                   backoffSlept, assignedId, hbNodeId, components, running,
                   slept, hbFails, job>>

\* _run_job_loop, line 176: execute_job returned, the loop polls again at
\* once; the job and the frame are dropped.
JobReturn ==
    /\ Alive
    /\ loop["job"] = "returned"
    /\ Runnable("job")
    /\ loop' = [loop EXCEPT !["job"] = "check"]
    /\ job' = NoJob
    /\ disp' = NoFrame
    /\ UNCHANGED <<units, timeouts, env, config, vres, main, exitStatus,
                   regLog, backoffSlept, assignedId, hbNodeId, components,
                   running, last, slept, hbFails>>

(***************************************************************************)
(* jobs/: the handlers' input validation                                   *)
(***************************************************************************)
\* base.py: BaseJob.validate, lines 24-29.
BaseJobValidate(j) == ~Falsy(j.jobId)

\* llm_inference.py: LLMInferenceJob.validate, lines 25-33.
LLMInferenceJobValidate(j) ==
    IF ~BaseJobValidate(j) THEN FALSE
    ELSE IF Falsy(j.prompt) THEN FALSE
    ELSE TRUE

\* The validate() of the handler class of the job's type (jobs/__init__.py);
\* of the other handlers' validate() only the inherited job id test.
HandlerValidate(j) ==
    IF j.jobType = "llm_inference" THEN LLMInferenceJobValidate(j) ELSE BaseJobValidate(j)

(***************************************************************************)
(* jobs/llm_inference.py: the LLMInferenceJob object                       *)
(***************************************************************************)
\* Job payloads handed to the constructor: job id and prompt present, empty
\* or missing.
HandlerJobs ==
    [jobId : {"j1", "j2", "", None}, jobType : {"llm_inference"},
     prompt : {"hi", "tell me", "", None}]

\* LLMInferenceJob.__init__ (lines 16-23) over BaseJob.__init__ (base.py
\* 11-15): a missing prompt defaults to '', model and tokenizer are None.
\* loads and generated count the load_model() and model.generate() calls,
\* validated and result hold what the last validate() and execute() returned,
\* raised tells that a method let an exception out.
LLMInferenceJobInit(j) ==
    [job |-> [j EXCEPT !.prompt = IF j.prompt = None THEN "" ELSE j.prompt],
     model |-> None, tokenizer |-> None, loads |-> 0, generated |-> 0,
     validated |-> <<>>, result |-> <<>>, raised |-> FALSE]

NoHandler == LLMInferenceJobInit(NoJob)

\* What the libraries do in one execute(): everything works, from_pretrained
\* raises for the tokenizer (line 45) or for the model (line 51), or
\* tokenizing/generating raises (lines 66-81).
ExecuteOutcomes == {"ok", "tokenizer_raises", "model_raises", "generate_raises"}

ValidationFailed == [success |-> FALSE, error |-> "Validation failed", output |-> None]
InferenceFailed == [success |-> FALSE, error |-> "str(e)", output |-> None]
InferenceDone == [success |-> TRUE, error |-> None, output |-> "generated_text"]

\* Mutant of LLMInferenceJobExecute: the validate() test of lines 62-63 is
\* missing.
LLMInferenceJobExecuteNoValidate(h, o) ==
    LET tok == IF o = "tokenizer_raises" THEN h.tokenizer ELSE "loaded"
        mod == IF o \in {"tokenizer_raises", "model_raises"} THEN h.model ELSE "loaded"
        gen == IF o \in {"ok", "generate_raises"} THEN h.generated + 1 ELSE h.generated
    IN [h EXCEPT !.tokenizer = tok, !.model = mod, !.loads = h.loads + 1,
                 !.generated = gen,
                 !.result = <<IF o = "ok" THEN InferenceDone ELSE InferenceFailed>>]

\* LLMInferenceJob.execute, lines 60-105, with load_model (lines 35-58): the
\* handler after the call, its return value in result.  Every exception of
\* the try block is turned into a failure result (lines 100-105).
LLMInferenceJobExecute(h, o) ==
    IF ~LLMInferenceJobValidate(h.job)
    THEN [h EXCEPT !.result = <<ValidationFailed>>]
    ELSE LET tok == IF o = "tokenizer_raises" THEN h.tokenizer ELSE "loaded"
             mod == IF o \in {"tokenizer_raises", "model_raises"} THEN h.model ELSE "loaded"
             gen == IF o \in {"ok", "generate_raises"} THEN h.generated + 1 ELSE h.generated
         IN [h EXCEPT !.tokenizer = tok, !.model = mod, !.loads = h.loads + 1,
                      !.generated = gen,
                      !.result = <<IF o = "ok" THEN InferenceDone ELSE InferenceFailed>>]

\* `if self.<attr>: del self.<attr>` (lines 109-112): None is left alone, an
\* object is deleted with its attribute.
Deleted(attr) == IF attr = "loaded" THEN "deleted" ELSE attr

\* LLMInferenceJob.cleanup, lines 107-117.  Reading an attribute that an
\* earlier cleanup() deleted raises AttributeError, which leaves cleanup().
LLMInferenceJobCleanup(h) ==
    IF h.model = "deleted" THEN [h EXCEPT !.raised = TRUE]
    ELSE IF h.tokenizer = "deleted"
         THEN [h EXCEPT !.model = Deleted(h.model), !.raised = TRUE]
         ELSE [h EXCEPT !.model = Deleted(h.model), !.tokenizer = Deleted(h.tokenizer)]

\* A caller evaluates handler.validate().
HandlerValidateCall ==
    /\ ~handler.raised
    /\ handler.validated = <<>>
    /\ handler' = [handler EXCEPT !.validated = <<LLMInferenceJobValidate(handler.job)>>]
    /\ UNCHANGED <<worker, sensors, probe, vram_gb, gpu>>

\* A caller evaluates handler.execute().
HandlerExecuteCall ==
    /\ ~handler.raised
    /\ handler.loads < MaxCalls
    /\ \E o \in ExecuteOutcomes : handler' = LLMInferenceJobExecute(handler, o)
    /\ UNCHANGED <<worker, sensors, probe, vram_gb, gpu>>

\* A caller evaluates handler.cleanup().
HandlerCleanupCall ==
    /\ ~handler.raised
    /\ handler' = LLMInferenceJobCleanup(handler)
    /\ UNCHANGED <<worker, sensors, probe, vram_gb, gpu>>

(***************************************************************************)
(* gpu_detector.py                                                         *)
(***************************************************************************)
\* The steps of detect() that can raise, in the order of lines 29-48.
ProbeSteps ==
    <<"import pynvml", "nvmlInit", "nvmlDeviceGetCount",
      "nvmlDeviceGetHandleByIndex", "nvmlDeviceGetName",
      "nvmlDeviceGetMemoryInfo", "nvmlSystemGetDriverVersion",
      "nvmlSystemGetCudaDriverVersion_v2", "nvmlShutdown">>

StepNo(step) == CHOOSE i \in 1..Len(ProbeSteps) : ProbeSteps[i] = step

\* The steps of lines 29-31 run for every probe; those of lines 34-48 run
\* only under `if device_count > 0`.
FirstDeviceStep == StepNo("nvmlDeviceGetHandleByIndex")

\* The step of probe p that raises, 0 when every step that runs succeeds.
RaisedAt(p) ==
    IF p.fail = "none" THEN 0
    ELSE IF StepNo(p.fail) >= FirstDeviceStep /\ p.device_count <= 0 THEN 0
    ELSE StepNo(p.fail)

\* The statement after the call `step` was reached and ran.
Passed(p, step) == RaisedAt(p) = 0 \/ RaisedAt(p) > StepNo(step)

\* VRAM sizes in MB as line 39 computes them (mem_info.total // 2^20): both
\* sides of every tier, none, and the largest.
VramMBs ==
    {0, MaxVramGB * 1024}
        \cup {g * 1024 - 1 : g \in {4, 8, 12, 24}}
        \cup {g * 1024 : g \in {4, 8, 12, 24}}

Probes ==
    [fail : {ProbeSteps[i] : i \in 1..Len(ProbeSteps)} \cup {"none"},
     device_count : {0, 1, 2},
     vram_mb : VramMBs]

NoProbe == [fail |-> "none", device_count |-> 0, vram_mb |-> 0]

VramGBs == (0 - 1)..MaxVramGB

\* Mutant of _determine_capabilities: the 12 GB tier offers inference only.
determine_capabilitiesThinMidTier(v) ==
    IF v >= 24 THEN <<"inference", "training", "fine_tuning", "render", "vision">>
    ELSE IF v >= 12 THEN <<"inference">>
    ELSE IF v >= 8 THEN <<"inference", "render">>
    ELSE IF v >= 4 THEN <<"inference">>
    ELSE <<"cpu_compute">>

\* Mutant of _determine_capabilities: the top tier starts above 24 GB.
determine_capabilitiesAbove24(v) ==
    IF v > 24 THEN <<"inference", "training", "fine_tuning", "render", "vision">>
    ELSE IF v >= 12 THEN <<"inference", "fine_tuning", "render">>
    ELSE IF v >= 8 THEN <<"inference", "render">>
    ELSE IF v >= 4 THEN <<"inference">>
    ELSE <<"cpu_compute">>

\* GPUDetector._determine_capabilities, lines 87-107.
_determine_capabilities(v) ==
    IF v >= 24 THEN <<"inference", "training", "fine_tuning", "render", "vision">>
    ELSE IF v >= 12 THEN <<"inference", "fine_tuning", "render">>
    ELSE IF v >= 8 THEN <<"inference", "render">>
    ELSE IF v >= 4 THEN <<"inference">>
    ELSE <<"cpu_compute">>

GpuName == "NVIDIA GeForce RTX"
CpuOnly == "CPU-only (No GPU detected)"

\* detect(), lines 16-25: gpu_info before the probe.
UnknownGpu ==
    [model |-> "Unknown", vram_mb |-> 0, driver_version |-> "Unknown",
     cuda_version |-> "Unknown", capabilities |-> <<>>]

\* detect(), lines 28-49: gpu_info when the try block is left, by its end or
\* by the exception of the step that raised; each field is assigned once the
\* call on its right-hand side has returned.
AfterTry(p) ==
    IF p.device_count > 0 /\ Passed(p, "nvmlDeviceGetCount")
    THEN [model |-> IF Passed(p, "nvmlDeviceGetName")
                    THEN GpuName ELSE "Unknown",
          vram_mb |-> IF Passed(p, "nvmlDeviceGetMemoryInfo")
                      THEN p.vram_mb ELSE 0,
          driver_version |-> IF Passed(p, "nvmlSystemGetDriverVersion")
                             THEN "driver" ELSE "Unknown",
          cuda_version |-> IF Passed(p, "nvmlSystemGetCudaDriverVersion_v2")
                           THEN "cuda" ELSE "Unknown",
          capabilities |-> IF Passed(p, "nvmlSystemGetCudaDriverVersion_v2")
                           THEN _determine_capabilities(p.vram_mb \div 1024)
                           ELSE <<>>]
    ELSE UnknownGpu

\* detect(), lines 14-66: the except clause (lines 51-64) runs when a step
\* raised, and falls back to CPU-only when the model is still "Unknown".
detect(p) ==
    LET info == AfterTry(p)
    IN IF RaisedAt(p) # 0 /\ info.model = "Unknown"
       THEN [info EXCEPT !.model = CpuOnly, !.capabilities = <<"cpu_compute">>]
       ELSE info

NoGpu == [info |-> <<>>, caps |-> <<>>, health |-> <<>>]

\* What NVML answers to get_gpu_stats(): a call of lines 128-134 or 140-143
\* raises ("nvml"), only nvmlDeviceGetPowerUsage raises ("power", line 137),
\* or every call returns; the temperature in degrees, the GPU utilization in
\* percent, and the used and total memory (here in units of 1/20 and 1/100
\* of the device's memory, so that 95 % and its neighbours occur).
SensorReadings ==
    [fail : {"none", "power", "nvml"},
     temperature : {84, 85, 86},
     gpu_utilization : {94, 95, 96},
     mem : {[used |-> 0, total |-> 0], [used |-> 18, total |-> 20],
            [used |-> 19, total |-> 20], [used |-> 20, total |-> 20],
            [used |-> 95, total |-> 100], [used |-> 96, total |-> 100]}]

NoSensors ==
    [fail |-> "nvml", temperature |-> 0, gpu_utilization |-> 0,
     mem |-> [used |-> 0, total |-> 0]]

\* get_gpu_stats, lines 126-157: the stats dict, <<>> for the empty dict of
\* the except clause.  mem_info.used / mem_info.total raises
\* ZeroDivisionError for a total of 0.  memory_utilization, the float
\* (used / total) * 100, is kept as the fraction num / den.
get_gpu_stats(r) ==
    IF r.fail = "nvml" \/ r.mem.total = 0 THEN <<>>
    ELSE <<[gpu_utilization |-> r.gpu_utilization,
            memory_utilization |-> [num |-> r.mem.used * 100, den |-> r.mem.total],
            temperature |-> r.temperature,
            power_draw |-> IF r.fail = "power" THEN "0" ELSE "watts"]>>

\* `x > n` for the float x = num / den, den > 0.
FractionAbove(x, n) == x.num > n * x.den

HighTemperature == "High temperature (>85 C)"
GpuOverloaded == "GPU overloaded (>95% utilization)"
VramOverloaded == "VRAM overloaded (>95% utilization)"

\* The list l with x appended when the test b holds (`if b: issues.append(x)`).
AppendIf(l, b, x) == IF b THEN Append(l, x) ELSE l

\* Mutant of monitor_health: the three thresholds are inclusive.
monitor_healthInclusive(r) ==
    LET stats == get_gpu_stats(r)
    IN IF stats = <<>> THEN [healthy |-> TRUE, issues |-> <<>>, stats |-> <<>>]
       ELSE LET i1 == AppendIf(<<>>, stats[1].temperature >= 85, HighTemperature)
                i2 == AppendIf(i1, stats[1].gpu_utilization >= 95, GpuOverloaded)
                i3 == AppendIf(i2, stats[1].memory_utilization.num
                                       >= 95 * stats[1].memory_utilization.den,
                               VramOverloaded)
            IN [healthy |-> Len(i3) = 0, issues |-> i3, stats |-> stats]

\* monitor_health, lines 159-189.
monitor_health(r) ==
    LET stats == get_gpu_stats(r)
    IN IF stats = <<>> THEN [healthy |-> TRUE, issues |-> <<>>, stats |-> <<>>]
       ELSE LET i1 == AppendIf(<<>>, stats[1].temperature > 85, HighTemperature)
                i2 == AppendIf(i1, stats[1].gpu_utilization > 95, GpuOverloaded)
                i3 == AppendIf(i2, FractionAbove(stats[1].memory_utilization, 95),
                               VramOverloaded)
            IN [healthy |-> Len(i3) = 0, issues |-> i3, stats |-> stats]

\* A monitor_health() call on the device's sensors.
MonitorCall ==
    /\ gpu.health = <<>>
    /\ gpu' = [gpu EXCEPT !.health = <<monitor_health(sensors)>>]
    /\ UNCHANGED <<worker, sensors, probe, vram_gb, handler>>

\* A detect() call on the probed hardware.
DetectCall ==
    /\ gpu.info = <<>>
    /\ gpu' = [gpu EXCEPT !.info = <<detect(probe)>>]
    /\ UNCHANGED <<worker, sensors, probe, vram_gb, handler>>

\* A _determine_capabilities(vram_gb) call.
DetermineCall ==
    /\ gpu.caps = <<>>
    /\ gpu' = [gpu EXCEPT !.caps = <<_determine_capabilities(vram_gb)>>]
    /\ UNCHANGED <<worker, sensors, probe, vram_gb, handler>>

(***************************************************************************)
(* The worker process.                                                     *)
(***************************************************************************)
\* The worker in the environment e with the Config c, its main thread at pc.
InitAt(pc, e, c) ==
    /\ env = e
    /\ config = c
    /\ vres = NoResult
    /\ main = pc
    /\ exitStatus = NoExit
    /\ regLog = <<>>
    /\ backoffSlept = 0
    /\ assignedId = None
    /\ hbNodeId = None
    /\ components = FALSE
    /\ running = FALSE
    /\ loop = [l \in Loops |-> "idle"]
    /\ last = [l \in Loops |-> "never"]
    /\ slept = [l \in Loops |-> 0]
    /\ hbFails = 0
    /\ job = NoJob
    /\ disp = NoFrame
    /\ timeouts = {}
    /\ gpu = NoGpu

\* HypernodeWorker.__init__, lines 28-34, in the environment e with the
\* Config c.
InitWorker(e, c) == InitAt("start", e, c)

\* No hardware probe is under way.
IdleUnits ==
    probe = NoProbe /\ vram_gb = 0 /\ sensors = NoSensors /\ handler = NoHandler

Init == \E e \in Envs : InitWorker(e, LoadConfig(e)) /\ IdleUnits

Next ==
    \/ Start
    \/ RegisterNode
    \/ Backoff
    \/ InitComponents
    \/ SetRunning
    \/ StartThread
    \/ Signal
    \/ \E l \in Loops : LoopCheck(l)
    \/ HeartbeatCall
    \/ TelemetryCall
    \/ \E l \in Loops : LoopSleep(l)
    \/ JobPoll
    \/ JobExecute
    \/ JobReportResult
    \/ JobReportFailure
    \/ JobReturn

Spec == Init /\ [][Next]_vars

\* Integer texts of the numeric environment variables: on both sides of
\* every clamp, far outside, signed and zero-padded.
Numerals ==
    {<<"-", "5">>, <<"0">>, <<"4">>, <<"5">>, <<"6">>, <<"9">>, <<"1", "0">>,
     <<"1", "1">>, <<"5", "9">>, <<"6", "0">>, <<"6", "1">>, <<"2", "9", "9">>,
     <<"3", "0", "0">>, <<"3", "0", "1">>, <<"5", "9", "9">>, <<"6", "0", "0">>,
     <<"6", "0", "1">>, <<"9", "9", "9", "9">>, <<"+", "7">>, <<"0", "0", "7">>}

NumericEnvs ==
    {[GoodEnv EXCEPT !.HEARTBEAT_INTERVAL = hb, !.REQUEST_TIMEOUT = rt,
                     !.JOB_POLL_INTERVAL = jp] :
        hb \in Numerals, rt \in Numerals, jp \in Numerals}

\* HypernodeWorker.__init__, line 29: self.config = Config().
Construct ==
    /\ main = "construct"
    /\ config' = LoadConfig(env)
    /\ main' = "start"
    /\ UNCHANGED <<units, timeouts, env, vres, exitStatus, regLog,
                   backoffSlept, assignedId, hbNodeId, components, running,
                   loop, last, slept, hbFails, job, disp>>

\* Config() on its own: every numeric environment.
InitEnv == \E e \in NumericEnvs : InitAt("construct", e, NoConfig) /\ IdleUnits

NextEnv == Construct

SpecEnv == InitEnv /\ [][NextEnv]_vars

\* The health monitor on its own: every sensor reading.
InitHealth ==
    /\ InitWorker(GoodEnv, LoadConfig(GoodEnv))
    /\ probe = NoProbe
    /\ vram_gb = 0
    /\ sensors \in SensorReadings
    /\ handler = NoHandler

NextHealth == MonitorCall

SpecHealth == InitHealth /\ [][NextHealth]_vars

\* An LLMInferenceJob on its own: every payload, its methods in any order.
InitHandler ==
    /\ InitWorker(GoodEnv, LoadConfig(GoodEnv))
    /\ probe = NoProbe
    /\ vram_gb = 0
    /\ sensors = NoSensors
    /\ \E j \in HandlerJobs : handler = LLMInferenceJobInit(j)

NextHandler == HandlerValidateCall \/ HandlerExecuteCall \/ HandlerCleanupCall

SpecHandler == InitHandler /\ [][NextHandler]_vars

\* The GPU detector on its own: every probe, every VRAM argument.
InitGpu ==
    /\ InitWorker(GoodEnv, LoadConfig(GoodEnv))
    /\ probe \in Probes
    /\ vram_gb \in VramGBs
    /\ sensors = NoSensors
    /\ handler = NoHandler

NextGpu == DetectCall \/ DetermineCall

SpecGpu == InitGpu /\ [][NextGpu]_vars

\* The scheduler runs every thread that can take a step, every request ends
\* (answered or failed) and every sleep ends: weak fairness of the heartbeat
\* and telemetry threads' steps.  Signals and the backend's answers are not
\* fair, and a job may run for ever.
InitFair == InitWorker(GoodEnv, LoadConfig(GoodEnv)) /\ IdleUnits

SpecFair ==
    /\ InitFair
    /\ [][Next]_vars
    /\ WF_vars(LoopCheck("heartbeat"))
    /\ WF_vars(HeartbeatCall)
    /\ WF_vars(LoopSleep("heartbeat"))
    /\ WF_vars(LoopCheck("telemetry"))
    /\ WF_vars(TelemetryCall)
    /\ WF_vars(LoopSleep("telemetry"))

(***************************************************************************)
(* Config values as the dataclass constructor accepts them, for validate(). *)
(***************************************************************************)
ConfigTokens == {<<>>, <<"t", "k">>}
ConfigWallets == {<<>>, Str("W", 1), Str("W", 31), Str("W", 32), Str("W", 44)}
ConfigUrls ==
    {<<>>, DefaultUrl, HttpScheme \o <<"a">>, HttpScheme, FtpUrl,
     <<"h", "t", "t", "p", ":", "/">>, <<"h", "t", "t", "p", "s", ":", "/", "a">>,
     <<"x">> \o HttpScheme, <<"H", "T", "T", "P", ":", "/", "/", "a">>}
ConfigIntervals == {-1, 0, 9, 10, 11, 600}
ConfigValues ==
    [node_token : ConfigTokens, wallet_pubkey : ConfigWallets, backend_url : ConfigUrls,
     heartbeat_interval : ConfigIntervals, request_timeout : {30},
     job_poll_interval : {10}]

InitConfig ==
    \E c \in ConfigValues :
        /\ InitWorker(Env(c.node_token, c.wallet_pubkey, c.backend_url, <<"6", "0">>), c)
        /\ IdleUnits

\* A caller evaluates config.validate().
ValidateCall ==
    /\ vres = NoResult
    /\ vres' = ConfigValidate(config)
    /\ UNCHANGED <<units, timeouts, env, config, main, exitStatus, regLog,
                   backoffSlept, assignedId, hbNodeId, components, running,
                   loop, last, slept, hbFails, job, disp>>

NextConfig == ValidateCall

SpecConfig == InitConfig /\ [][NextConfig]_vars

(***************************************************************************)
(* Properties.                                                             *)
(***************************************************************************)
Registered == \E i \in 1..Len(regLog) : regLog[i]
NoLoopStarted == \A l \in Loops : loop[l] = "idle" /\ last[l] = "never"

\* C1: start() calls register_node at most twice; a second call happens only
\* after a failed first call and the 30 s backoff; after a successful first
\* call there is no other call; after two failed calls the process has
\* exited with status 1 and no loop was started; after one failed call the
\* living worker is waiting out the backoff or about to call again.
C1_RegisterRetriedOnce ==
    /\ Len(regLog) <= 2
    /\ (Len(regLog) >= 1 /\ regLog[1] => Len(regLog) = 1)
    /\ (Len(regLog) = 2 => ~regLog[1] /\ backoffSlept = 30)
    /\ (main = "register" /\ Len(regLog) = 1 => backoffSlept = 30)
    /\ (regLog = <<FALSE>> /\ Alive => main \in {"backoff", "register"})
    /\ (regLog = <<FALSE, FALSE>> =>
            main = "exited" /\ exitStatus = <<1>> /\ NoLoopStarted /\ ~running)

\* C1 witness: both register calls failed and the process ended.
C1_Witness == regLog = <<FALSE, FALSE>> /\ exitStatus = <<1>> /\ backoffSlept = 30

\* C2: a configuration that Config.validate rejects sends no registration
\* request and starts no loop.
C2_InvalidConfigNeverRegisters ==
    ~ConfigValidate(config)[1] => regLog = <<>> /\ NoLoopStarted

\* A URL that begins http:// or https://, character by character.
HasHttpScheme(u) ==
    /\ Len(u) >= 7
    /\ u[1] = "h" /\ u[2] = "t" /\ u[3] = "t" /\ u[4] = "p"
    /\ \/ u[5] = ":" /\ u[6] = "/" /\ u[7] = "/"
       \/ Len(u) >= 8 /\ u[5] = "s" /\ u[6] = ":" /\ u[7] = "/" /\ u[8] = "/"

\* C3: Config.validate returns false exactly when the token is empty, the
\* wallet has fewer than 32 characters, the URL starts with neither http://
\* nor https://, or the heartbeat interval is below 10.
C3_ValidateIff ==
    vres # NoResult =>
        (vres[1] = FALSE <=>
            \/ Len(config.node_token) = 0
            \/ Len(config.wallet_pubkey) < 32
            \/ ~HasHttpScheme(config.backend_url)
            \/ config.heartbeat_interval < 10)

\* C3 witness: validate() rejected a 31-character wallet of a configuration
\* that is valid otherwise.
C3_Witness ==
    /\ vres # NoResult
    /\ vres[1] = FALSE
    /\ Len(config.node_token) > 0
    /\ Len(config.wallet_pubkey) = 31
    /\ HasHttpScheme(config.backend_url)
    /\ config.heartbeat_interval >= 10

\* C4: a loop thread exists, or a heartbeat, telemetry collection or job poll
\* has been made, only after some register call returned success.
C4_LoopsOnlyAfterRegistration ==
    (\E l \in Loops : loop[l] # "idle" \/ last[l] # "never") \/ components \/ running
        => Registered

\* C4 witness: registration succeeded on the retry and all three loops have
\* made their call.
C4_Witness ==
    /\ regLog = <<FALSE, TRUE>>
    /\ \A l \in Loops : last[l] # "never"

\* C5: every result report carries the node id the backend assigned at
\* registration.
C5_ReportCarriesAssignedId ==
    \A i \in 1..Len(disp.reports) :
        disp.reports[i].kind = "result" => disp.reports[i].nodeId = assignedId

\* C6: no loop thread is ended by an exception of its body: a thread that has
\* left its loop left it at the `while` test with the run flag false, and a
\* thread whose body raised is in its recovery sleep or back at the `while`
\* test.
C6_LoopsSurviveExceptions ==
    \A l \in Loops :
        /\ loop[l] # "crashed"
        /\ (loop[l] = "exited" => ~running)
        /\ (last[l] = "raise" => loop[l] \in {"recover", "check"})

\* C6 witness: the body of each of the three loops raised, and each loop is
\* back at its `while` test.
C6_Witness == \A l \in Loops : last[l] = "raise" /\ loop[l] = "check" /\ running

\* C7: whenever heartbeats have failed some number of times in a row, the
\* heartbeat thread attempts another call, unless the process has ended or the
\* run flag is false.
C7_HeartbeatRetriesAfterFailures ==
    [](hbFails >= 1 => <>(loop["heartbeat"] = "call" \/ ~Alive \/ ~running))

\* C7 witness: after three consecutive failed heartbeats a further call is
\* being attempted.
C7_Witness == hbFails >= 3 /\ loop["heartbeat"] = "call" /\ Alive

\* C8: when execute_job returns, exactly one report request was made, for the
\* job's id: a result report if the handler returned, a failure report if it
\* raised; and no exception leaves execute_job, whatever became of the
\* report request.
C8_ExactlyOneReport ==
    /\ ~disp.escaped
    /\ Len(disp.reports) <= 1
    /\ (loop["job"] = "returned" =>
            /\ Len(disp.reports) = 1
            /\ disp.reports[1].jobId = job.jobId
            /\ disp.reports[1].kind = (IF disp.error = None THEN "result" ELSE "failure")
            /\ disp.returned = (IF disp.error = None THEN "True" ELSE "False"))

\* C8 witness: the handler raised, the failure report met a transport
\* failure, and execute_job returned.
C8_Witness ==
    /\ loop["job"] = "returned"
    /\ disp.error # None
    /\ disp.reports[1].kind = "failure"
    /\ disp.reports[1].outcome = "transport"

\* C9: a dispatched job that fails its handler's validation has no handler
\* run, and gets exactly one failure report with a non-empty error and no
\* result report.
C9_InvalidJobOnlyFailureReport ==
    loop["job"] = "returned" /\ ~HandlerValidate(job) =>
        /\ ~disp.executed
        /\ Len(disp.reports) = 1
        /\ disp.reports[1].kind = "failure"
        /\ ~Falsy(disp.reports[1].error)

\* C10: when execute_job returns, the handler's cleanup() has been called
\* exactly once.
C10_CleanupOnce ==
    loop["job"] = "returned" => disp.cleaned = 1

KnownJobTypes ==
    {"llm_inference", "llm_fine_tuning", "rag_indexing", "vision_pipeline", "render"}

\* C11: a job whose type is none of the five known types (or is missing) is
\* never on the failure path, and when execute_job returns it has made one
\* result report carrying the generic handler's success payload, has made no
\* failure report, has returned True and has raised nothing.
C11_UnknownTypeReportsSuccess ==
    loop["job"] \in {"report_result", "report_failure", "returned", "recover"}
        /\ job # NoJob /\ job.jobType \notin KnownJobTypes =>
            /\ loop["job"] \in {"report_result", "returned"}
            /\ disp.error = None
            /\ ~disp.escaped
            /\ disp.result.key = "result"
            /\ disp.result.value = "Generic job completed"
            /\ disp.result.exit_code = "0"
            /\ (loop["job"] = "returned" =>
                    /\ Len(disp.reports) = 1
                    /\ disp.reports[1].kind = "result"
                    /\ disp.reports[1].jobId = job.jobId
                    /\ disp.returned = "True")

\* C11 witness: a job without a type was dispatched, its result report met a
\* transport failure, and execute_job returned.
C11_Witness ==
    /\ loop["job"] = "returned"
    /\ job.jobType = None
    /\ disp.reports[1].kind = "result"
    /\ disp.reports[1].outcome = "transport"

\* C12: when the worker has been stopped by an interrupt or terminate signal
\* (the only exit with status 0), the run flag has been set false; a worker
\* whose run flag was never raised has it false already.
C12_SignalClearsRunFlag ==
    exitStatus = <<0>> => ~running

\* C13: the exit status is 1 exactly when the configuration is invalid or
\* registration failed twice: a worker that exited with 1 had one of the two,
\* a worker with an invalid configuration goes no further than the exit, and
\* a worker whose loops were started never exits with 1.
C13_ExitOneIffInvalidOrUnregistered ==
    /\ (exitStatus = <<1>> =>
            ~ConfigValidate(config)[1] \/ regLog = <<FALSE, FALSE>>)
    /\ (regLog = <<FALSE, FALSE>> => main = "exited")
    /\ (~ConfigValidate(config)[1] => main \in {"start", "exited"})
    /\ (~NoLoopStarted => exitStatus # <<1>>)

\* The tags of a capability list.
Tags(caps) == {caps[i] : i \in 1..Len(caps)}

\* A step of the probe raised.
ProbeFailed == RaisedAt(probe) # 0

\* C14: every snapshot detect() returns has a non-empty capability list,
\* whatever the probe did: raised at some step, found no device, or succeeded
\* with some VRAM size.
C14_CapabilitiesNeverEmpty ==
    gpu.info # <<>> => gpu.info[1].capabilities # <<>>

\* C15: whenever a step of the probe raised, also after some GPU fields were
\* read, detect() returns the CPU-only snapshot, whose tags are exactly
\* {cpu_compute}.
C15_FailedProbeGivesCpuOnly ==
    gpu.info # <<>> /\ ProbeFailed =>
        /\ gpu.info[1].model = CpuOnly
        /\ Tags(gpu.info[1].capabilities) = {"cpu_compute"}

\* C16: the capability list returned for vram_gb is never empty, has at
\* least as many tags as the list of every smaller VRAM size and at most as
\* many as the list of every larger one.
C16_CapabilitiesMonotone ==
    gpu.caps # <<>> =>
        /\ Tags(gpu.caps[1]) # {}
        /\ \A v \in VramGBs :
            /\ v <= vram_gb =>
                Cardinality(Tags(_determine_capabilities(v)))
                    <= Cardinality(Tags(gpu.caps[1]))
            /\ v >= vram_gb =>
                Cardinality(Tags(_determine_capabilities(v)))
                    >= Cardinality(Tags(gpu.caps[1]))

\* C16 witness: the call was made for 12 GB, between a poorer and a richer tier.
C16_Witness ==
    /\ gpu.caps # <<>>
    /\ vram_gb = 12
    /\ Cardinality(Tags(gpu.caps[1])) = 3

\* The tier table of the specification, tier by tier.
TierTable(v, tags) ==
    /\ (v >= 24 =>
            tags = {"inference", "training", "fine_tuning", "render", "vision"})
    /\ (v >= 12 /\ v < 24 => tags = {"inference", "fine_tuning", "render"})
    /\ (v >= 8 /\ v < 12 => tags = {"inference", "render"})
    /\ (v >= 4 /\ v < 8 => tags = {"inference"})
    /\ (v < 4 => tags = {"cpu_compute"})

\* C17: _determine_capabilities returns exactly the tier of its argument, and
\* a probe that succeeds on a device gets the tier of its VRAM in whole GB.
C17_TierTable ==
    /\ (gpu.caps # <<>> => TierTable(vram_gb, Tags(gpu.caps[1])))
    /\ (gpu.info # <<>> /\ ~ProbeFailed /\ probe.device_count > 0 =>
            TierTable(probe.vram_mb \div 1024, Tags(gpu.info[1].capabilities)))

\* C17 witness: the call was made for exactly 24 GB and returned the five
\* tags, and a successful probe read 24575 MB and got the 12 GB tier.
C17_Witness ==
    /\ gpu.caps # <<>>
    /\ vram_gb = 24
    /\ Len(gpu.caps[1]) = 5
    /\ gpu.info # <<>>
    /\ ~ProbeFailed
    /\ probe.device_count = 1
    /\ probe.vram_mb = 24575
    /\ Len(gpu.info[1].capabilities) = 3

\* The value the specification gives a numeric setting: v itself inside
\* lo..hi, else the nearer of the two bounds.
Clamped(v, lo, hi) == IF v < lo THEN lo ELSE IF v > hi THEN hi ELSE v

\* C18: for every integer in the environment the loaded Config has its
\* heartbeat interval in 10..600, its job poll interval in 5..60 and its
\* request timeout in 5..300, each the environment's value when that is in
\* range and the nearest bound otherwise.
C18_ConfigClamped ==
    main # "construct" =>
        /\ config.heartbeat_interval \in 10..600
        /\ config.job_poll_interval \in 5..60
        /\ config.request_timeout \in 5..300
        /\ config.heartbeat_interval = Clamped(int(env.HEARTBEAT_INTERVAL), 10, 600)
        /\ config.job_poll_interval = Clamped(int(env.JOB_POLL_INTERVAL), 5, 60)
        /\ config.request_timeout = Clamped(int(env.REQUEST_TIMEOUT), 5, 300)

\* C18 witness: a Config loaded from a heartbeat interval above its range, a
\* job poll interval below its range and a request timeout inside its range.
C18_Witness ==
    /\ main = "start"
    /\ int(env.HEARTBEAT_INTERVAL) = 601 /\ config.heartbeat_interval = 600
    /\ int(env.JOB_POLL_INTERVAL) = 4 /\ config.job_poll_interval = 5
    /\ int(env.REQUEST_TIMEOUT) = 299 /\ config.request_timeout = 299

\* C19: an llm_inference handler whose prompt is missing or empty, or whose
\* job id is missing, answers validate() with False and execute() with a
\* failure result, and never loads a model or generates.
C19_InvalidJobNeverLoads ==
    Falsy(handler.job.prompt) \/ Falsy(handler.job.jobId) =>
        /\ (handler.validated # <<>> => handler.validated[1] = FALSE)
        /\ (handler.result # <<>> => handler.result[1].success = FALSE)
        /\ handler.loads = 0
        /\ handler.generated = 0
        /\ handler.model = None
        /\ handler.tokenizer = None

\* C19 witness: execute() has returned on a handler with a job id and an
\* empty prompt.
C19_Witness ==
    /\ handler.job.jobId = "j1"
    /\ handler.job.prompt = ""
    /\ handler.result = <<ValidationFailed>>
    /\ handler.validated = <<FALSE>>

\* C20: when the heartbeat thread has slept after an iteration, it slept the
\* 5 s recovery delay if the heartbeat failed (a transport error or a
\* response other than 200) and the configured heartbeat interval if the
\* heartbeat succeeded.
C20_HeartbeatFailureSleepsFive ==
    loop["heartbeat"] = "check" /\ slept["heartbeat"] # 0 =>
        /\ (last["heartbeat"] = "true" =>
                slept["heartbeat"] = config.heartbeat_interval)
        /\ (last["heartbeat"] # "true" => slept["heartbeat"] = 5)

\* C21: when the job thread has slept after a poll, it slept the configured
\* job poll interval if the poll returned no job, and the 5 s recovery delay
\* if the poll failed (transport error, rejection) or raised; and a dispatch
\* that ended in failure is not followed by another poll without that delay.
C21_JobLoopSleeps ==
    /\ (loop["job"] = "check" /\ slept["job"] # 0 =>
            /\ (last["job"] = "none" => slept["job"] = config.job_poll_interval)
            /\ (last["job"] \in {"error", "raise"} => slept["job"] = 5))
    /\ (loop["job"] = "returned" => disp.returned = "True")

\* C22: when the telemetry thread has slept after an iteration, it slept 60 s
\* if the collection succeeded and the 10 s recovery delay if the collection
\* met an error.
C22_TelemetrySleeps ==
    loop["telemetry"] = "check" /\ slept["telemetry"] # 0 =>
        /\ (last["telemetry"] = "collected" => slept["telemetry"] = 60)
        /\ (last["telemetry"] # "collected" => slept["telemetry"] = 10)

\* C23: for the job in the job thread's hands the handler's validate(), the
\* execution, the handler's cleanup() and the report happen in this order:
\* the handler runs only after validate() was called, and a report is sent
\* only after the handler ran and cleanup() was called.
C23_ValidateExecuteCleanupReport ==
    /\ (disp.executed => disp.validated = 1)
    /\ (disp.cleaned >= 1 => disp.executed)
    /\ (disp.reports # <<>> => disp.executed /\ disp.cleaned = 1)

\* Where the job thread is while a fetched job is in its hands.
InFlight == {"execute", "report_result", "report_failure", "returned"}

\* C24: the job thread holds a job only between the poll that fetched it and
\* the return of execute_job, so it polls only with no job in its hands; the
\* job's handler runs at most once and at most one report is sent for it,
\* also when the handler raised.
C24_OneJobInFlight ==
    /\ (job # NoJob <=> loop["job"] \in InFlight)
    /\ (loop["job"] \notin InFlight => disp = NoFrame)
    /\ disp.runs <= 1
    /\ (disp.executed <=> disp.runs = 1)
    /\ Len(disp.reports) <= 1
    /\ (disp.reports # <<>> => loop["job"] = "returned" /\ disp.runs = 1)

\* C24 witness: a job's handler raised, its failure was reported and
\* execute_job returned False; the handler ran once.
C24_Witness ==
    /\ loop["job"] = "returned"
    /\ disp.returned = "False"
    /\ disp.runs = 1
    /\ Len(disp.reports) = 1
    /\ disp.reports[1].kind = "failure"

\* C25: if the job thread stays for ever inside one handler run or one poll,
\* the heartbeat thread and the telemetry thread, scheduled fairly, still
\* make their calls again and again.
C25_NoLoopBlocksAnother ==
    <>[](loop["job"] \in {"execute", "call"}) =>
        /\ []<><<HeartbeatCall>>_vars
        /\ []<><<TelemetryCall>>_vars

\* C25 witness: the job thread is inside a handler run while the heartbeat
\* thread and the telemetry thread have each just finished a call of their
\* current iteration.
C25_Witness ==
    /\ loop["job"] = "execute"
    /\ loop["heartbeat"] = "sleep" /\ last["heartbeat"] = "true"
    /\ loop["telemetry"] = "sleep" /\ last["telemetry"] = "collected"

\* C26: every request made to the backend (register, heartbeat, poll, result
\* report, failure report) was given the configured request timeout.
C26_RequestsUseConfiguredTimeout ==
    \A t \in timeouts : t = config.request_timeout

\* The stats probe failed: get_gpu_stats() has no data.
StatsFailed == sensors.fail = "nvml" \/ sensors.mem.total = 0

\* C27: monitor_health() lists an issue for exactly each of temperature > 85,
\* GPU utilization > 95 and memory utilization > 95 (nothing at 85 or 95
\* themselves), healthy is true exactly when the issue list is empty, and a
\* failed stats probe gives healthy with no issue and an empty stats map.
C27_MonitorHealth ==
    gpu.health # <<>> =>
        LET h == gpu.health[1]
        IN /\ (h.healthy <=> h.issues = <<>>)
           /\ IF StatsFailed
              THEN h.healthy /\ h.issues = <<>> /\ h.stats = <<>>
              ELSE /\ h.stats # <<>>
                   /\ (HighTemperature \in Tags(h.issues) <=> sensors.temperature > 85)
                   /\ (GpuOverloaded \in Tags(h.issues) <=> sensors.gpu_utilization > 95)
                   /\ (VramOverloaded \in Tags(h.issues)
                          <=> sensors.mem.used * 100 > 95 * sensors.mem.total)
                   /\ Tags(h.issues) \subseteq {HighTemperature, GpuOverloaded, VramOverloaded}
                   /\ Cardinality(Tags(h.issues)) = Len(h.issues)

\* C27 witness: the sensors read exactly 85 degrees, 96 % GPU utilization and
\* 95 % memory utilization, and monitor_health() returned the one issue.
C27_Witness ==
    /\ gpu.health # <<>>
    /\ sensors.fail = "none"
    /\ sensors.temperature = 85
    /\ sensors.gpu_utilization = 96
    /\ sensors.mem = [used |-> 19, total |-> 20]
    /\ gpu.health[1].issues = <<GpuOverloaded>>
    /\ ~gpu.health[1].healthy

\* C28: cleanup() is idempotent on a handler in any state: no cleanup() call
\* ends in an error, and a second call right after a first one completes and
\* leaves the handler as the first call left it.
C28_CleanupIdempotent ==
    /\ ~handler.raised
    /\ LET once == LLMInferenceJobCleanup(handler)
       IN /\ ~once.raised
          /\ LLMInferenceJobCleanup(once) = once

\* C29: whenever a loop thread has been started, the three components are
\* constructed and the run flag is true, and no loop has left its `while`
\* because it found the flag false.
C29_ThreadsStartInitialised ==
    \A l \in Loops :
        loop[l] # "idle" => components /\ running /\ loop[l] # "exited"

\* C29 witness: the three threads are inside their first calls.
C29_Witness ==
    /\ \A l \in Loops : loop[l] = "call"
    /\ components
    /\ running
    /\ main = "main_loop"
====
